---- MODULE Spec2Model ----
(***************************************************************************)
(* Model of src/main.py: load_data and compare_columns.                    *)
(*                                                                         *)
(* Python strings that the code inspects character by character (cell      *)
(* values, file paths) are sequences of code points; strings the code only *)
(* passes around or compares as a whole (column names, the target          *)
(* selector, literal text) are TLA+ strings.  A line of a written file is  *)
(* the tuple of the pieces the code formats into it.                       *)
(***************************************************************************)
EXTENDS Integers, Sequences, FiniteSets, TLC

VARIABLES
    store,      \* the input files on disk: path -> table, or NoFile
    fs,         \* the output files on disk: path -> [exists, lines]
    pc,         \* position of the current compare_columns call
    args,       \* the arguments of the current call, defaults filled in
    df1, df2,   \* the loaded tables
    cmp,        \* ignored1/2, set1/2, only_in_file1/2, in_both
    tgt,        \* target_name, only_in_target, id_col
    ret,        \* the returned bundle
    err,        \* the exception that ended the call
    reads,      \* paths handed to a file reader during the call, in order
    written,    \* output paths written during the call
    fs0,        \* fs when the call started
    prev        \* outcome of the preceding call when this one repeats it

vars == <<store, fs, pc, args, df1, df2, cmp, tgt, ret, err, reads, written, fs0, prev>>

---------------------------------------------------------------------------
(* Bounds of the model.                                                    *)

\* Most rows a column of a drawn table holds.
MaxRows == 2

---------------------------------------------------------------------------
(* Code points and strings.                                                *)

\* The quantifier of the pattern r'^\d{16}$'.
NDigits == 16

RECURSIVE Rep(_, _)
Rep(c, n) == IF n = 0 THEN <<>> ELSE Append(Rep(c, n - 1), c)

Range(s) == {s[i] : i \in 1..Len(s)}

\* str.lower() on the ASCII letters.
Lower(s) == [i \in 1..Len(s) |-> IF s[i] \in 65..90 THEN s[i] + 32 ELSE s[i]]

\* str.rfind(c), 1-based; 0 when c does not occur.
RFind(s, c) ==
    LET hits == {i \in 1..Len(s) : s[i] = c}
    IN  IF hits = {} THEN 0 ELSE CHOOSE i \in hits : \A j \in hits : j <= i

\* os.path.splitext(p)[1]: from the last dot of the last path component on,
\* unless that component has only dots before it.
SplitExt(p) ==
    LET sepIndex == RFind(p, 47)
        dotIndex == RFind(p, 46)
    IN  IF dotIndex > sepIndex
           /\ \E k \in (sepIndex + 1)..(dotIndex - 1) : p[k] # 46
        THEN SubSeq(p, dotIndex, Len(p))
        ELSE <<>>

\* os.path.basename(p).
Basename(p) == SubSeq(p, RFind(p, 47) + 1, Len(p))

\* Python's < on str: by code point, a proper prefix first.
LexLess(a, b) ==
    \E i \in 1..(Len(b)) :
        /\ \A j \in 1..(i - 1) : j <= Len(a) /\ a[j] = b[j]
        /\ i - 1 <= Len(a)
        /\ (i = Len(a) + 1 \/ (i <= Len(a) /\ a[i] < b[i]))

\* Descending instead of ascending.
RECURSIVE SortedDescending(_)
SortedDescending(S) ==
    IF S = {} THEN <<>>
    ELSE LET m == CHOOSE x \in S : \A y \in S \ {x} : LexLess(y, x)
         IN  <<m>> \o SortedDescending(S \ {m})

\* sorted(S) for a set of strings, ascending.
RECURSIVE Sorted(_)
Sorted(S) ==
    IF S = {} THEN <<>>
    ELSE LET m == CHOOSE x \in S : \A y \in S \ {x} : LexLess(x, y)
         IN  <<m>> \o Sorted(S \ {m})

\* Series.unique(): the distinct values in order of first occurrence.
RECURSIVE Unique(_)
Unique(s) ==
    IF s = <<>> THEN <<>>
    ELSE LET front == Unique(SubSeq(s, 1, Len(s) - 1))
             last  == s[Len(s)]
         IN  IF last \in Range(front) THEN front ELSE Append(front, last)

\* \d on the code points of the model's alphabet (the ASCII digits).
IsDigit(c) == c \in 48..57

\* re.match(r'^\d{16}$', s): sixteen digits from the start, then the end of
\* the string; Python's $ also matches just before a final newline.
Match16(s) ==
    /\ Len(s) >= NDigits
    /\ \A i \in 1..NDigits : IsDigit(s[i])
    /\ \/ Len(s) = NDigits
       \/ Len(s) = NDigits + 1 /\ s[NDigits + 1] = 10

---------------------------------------------------------------------------
(* Cells and their string conversion.                                      *)

StrCell(s)     == [kind |-> "str", val |-> s]
IntCell(ds)    == [kind |-> "int", val |-> ds]     \* decimal digits, no sign
FloatCell(ds)  == [kind |-> "float", val |-> ds]   \* integer-valued, < 1e16

\* Series.astype(str) on one cell: str(x).
AsStr(cell) ==
    CASE cell.kind = "str"   -> cell.val
      [] cell.kind = "int"   -> [i \in 1..Len(cell.val) |-> 48 + cell.val[i]]
      [] cell.kind = "float" -> [i \in 1..Len(cell.val) |-> 48 + cell.val[i]] \o <<46, 48>>

AsTypeStr(column) == [i \in 1..Len(column) |-> AsStr(column[i])]

---------------------------------------------------------------------------
(* The files and arguments the model draws from.                           *)

PathA == <<97, 46, 120, 108, 115, 120>>            \* "a.xlsx"
PathB == <<100, 47, 98, 46, 71, 80, 75, 71>>       \* "d/b.GPKG"
PathC == <<99, 46, 99, 115, 118>>                  \* "c.csv"
PathM == <<109, 46, 120, 108, 115>>                \* "m.xls", not on disk
PathN == <<120, 46, 120, 108, 115, 47, 110>>       \* "x.xls/n"
FilePool == {PathA, PathB, PathC, PathM, PathN}

ColA == "bag_id"       \* the column of the table at PathA
ColB == "pand_id"      \* the column of the table at PathB
ColPool == {ColA, ColB}

TargetPool == {"file1", "file2", "first", "second"}

Timestamps == {"2025-01-01 00:00:00", "2025-01-01 00:00:01"}

Id1 == Rep(49, NDigits)                            \* "1111111111111111"
Id2 == Rep(50, NDigits)                            \* "2222222222222222"
Id3 == Rep(51, NDigits)                            \* "3333333333333333"
Abc == <<97, 98, 99>>                              \* "abc"

\* Cell values of the drawn tables.
Cells ==
    { StrCell(Id1),
      IntCell(Rep(2, NDigits)),                    \* 2222222222222222
      FloatCell(Rep(1, NDigits)),                  \* 1111111111111111.0
      StrCell(Abc),
      StrCell(Append(Id1, 10)) }                   \* "1111111111111111\n"

RECURSIVE ColumnsUpTo(_)
ColumnsUpTo(n) ==
    IF n = 0 THEN {<<>>}
    ELSE LET shorter == ColumnsUpTo(n - 1)
         IN  shorter \cup {Append(c, v) : c \in {d \in shorter : Len(d) = n - 1}, v \in Cells}

NoFile == [exists |-> FALSE, table |-> <<>>]
File(t) == [exists |-> TRUE, table |-> t]

StoreOf(colA, colB) ==
    (PathA :> File([c \in {ColA} |-> colA])) @@
    (PathB :> File([c \in {ColB} |-> colB])) @@
    (PathC :> File([c \in {ColA} |-> colA])) @@
    (PathN :> File([c \in {ColA} |-> colA])) @@
    (PathM :> NoFile)

\* The scenarios of the specification's section 8: a source with two valid
\* ids and a malformed value against a source with two valid ids, and an
\* empty source.
ScenarioStores ==
    { StoreOf(<<StrCell(Id1), StrCell(Id2), StrCell(Abc)>>, <<StrCell(Id2), StrCell(Id3)>>),
      StoreOf(<<>>, <<StrCell(Id2), StrCell(Id3)>>) }

DataStores == {StoreOf(a, b) : a \in ColumnsUpTo(MaxRows), b \in ColumnsUpTo(MaxRows)}

---------------------------------------------------------------------------
(* Files on disk.                                                          *)

DefaultLogPath == "comparison_log.txt"
DefaultOutputPath == "comparison_results.csv"
LogPaths == {DefaultLogPath, "run.log"}
OutputPaths == {DefaultOutputPath, "out.csv"}

Absent == [exists |-> FALSE, lines |-> <<>>]
Stale == [exists |-> TRUE, lines |-> << <<"stale">> >>]

\* Opened in append mode.
AppendFile(files, path, lines) ==
    [files EXCEPT ![path] = [exists |-> TRUE, lines |-> files[path].lines \o lines]]

\* open(path, "w") ... write: the file holds exactly the lines written.
WriteFile(files, path, lines) ==
    [files EXCEPT ![path] = [exists |-> TRUE, lines |-> lines]]

---------------------------------------------------------------------------
(* load_data.                                                              *)

NoErr == [type |-> "none", msg |-> <<>>]
ValueError(msg) == [type |-> "ValueError", msg |-> msg]
NoTable == <<>>

ExtXlsx == <<46, 120, 108, 115, 120>>              \* ".xlsx"
ExtXls  == <<46, 120, 108, 115>>                   \* ".xls"
ExtGpkg == <<46, 103, 112, 107, 103>>              \* ".gpkg"

\* pd.read_excel / gpd.read_file: the table at the path, or the file
\* layer's own error when there is none.
ReadFile(st, filepath) ==
    IF st[filepath].exists
    THEN [df |-> st[filepath].table, err |-> NoErr, read |-> TRUE]
    ELSE [df |-> NoTable, err |-> [type |-> "FileNotFoundError", msg |-> <<filepath>>],
          read |-> TRUE]

\* The extension compared as written.
LoadDataCaseSensitive(st, filepath) ==
    LET ext == SplitExt(filepath)
    IN  IF ext \in {ExtXlsx, ExtXls} THEN ReadFile(st, filepath)
        ELSE IF ext = ExtGpkg THEN ReadFile(st, filepath)
        ELSE [df |-> NoTable, err |-> ValueError(<<"Unsupported file type: ", ext>>),
              read |-> FALSE]

\* load_data: the reader is chosen by the lower-cased extension.
LoadData(st, filepath) ==
    LET ext == Lower(SplitExt(filepath))
    IN  IF ext \in {ExtXlsx, ExtXls} THEN ReadFile(st, filepath)
        ELSE IF ext = ExtGpkg THEN ReadFile(st, filepath)
        ELSE [df |-> NoTable, err |-> ValueError(<<"Unsupported file type: ", ext>>),
              read |-> FALSE]

---------------------------------------------------------------------------
(* compare_columns: the pure parts.                                        *)

ColumnError(col, file) == ValueError(<<"Column '", col, "' not found in ", file>>)

\* The second check left out.
CheckColumnsFirstOnly(a, t1, t2) ==
    IF a.col1 \notin DOMAIN t1 THEN ColumnError(a.col1, a.file1) ELSE NoErr

\* The column checks: the first missing column's error, or none.
CheckColumns(a, t1, t2) ==
    IF a.col1 \notin DOMAIN t1 THEN ColumnError(a.col1, a.file1)
    ELSE IF a.col2 \notin DOMAIN t2 THEN ColumnError(a.col2, a.file2)
    ELSE NoErr

\* df.loc[~valid_mask, col].unique().tolist() on the converted column.
Ignored(strs) ==
    Unique(SelectSeq(strs, LAMBDA v : ~Match16(v)))

\* set(df_valid[col]) on the converted column.
ValidSet(strs) == {strs[i] : i \in {j \in 1..Len(strs) : Match16(strs[j])}}

\* The difference left out.
OnlyInNoDifference(setX, setY) == Sorted(setX)
\* The first set instead of the intersection.
InBothOfFirst(setX, setY) == Sorted(setX)

OnlyIn(setX, setY) == Sorted(setX \ setY)
InBoth(setX, setY) == Sorted(setX \cap setY)

NoCmp == [done |-> FALSE]

\* The conversion, the filter, the sets and the comparison.
Compare(col1Cells, col2Cells) ==
    LET s1 == AsTypeStr(col1Cells)
        s2 == AsTypeStr(col2Cells)
        set1 == ValidSet(s1)
        set2 == ValidSet(s2)
    IN  [ done |-> TRUE,
          str1 |-> s1, str2 |-> s2,
          ignored1 |-> Ignored(s1), ignored2 |-> Ignored(s2),
          set1 |-> set1, set2 |-> set2,
          only_in_file1 |-> OnlyIn(set1, set2),
          only_in_file2 |-> OnlyIn(set2, set1),
          in_both |-> InBoth(set1, set2) ]

ValueLines(vs) == [i \in 1..Len(vs) |-> <<"   ", vs[i]>>]

\* The lines written to the log, in order.
LogLines(ts, a, c) ==
    << <<"Comparison log - ", ts>>,
       <<"======================================================================">>,
       <<>>,
       <<"File 1: ", a.file1>>, <<"Column: ", a.col1>>,
       <<"File 2: ", a.file2>>, <<"Column: ", a.col2>>,
       <<>>,
       <<"--- Ignored values (not 16 digits) ---">>,
       <<>>,
       <<"Ignored in ", Basename(a.file1), " (", Len(c.ignored1), "):">> >>
    \o ValueLines(c.ignored1)
    \o << <<>>, <<"Ignored in ", Basename(a.file2), " (", Len(c.ignored2), "):">> >>
    \o ValueLines(c.ignored2)
    \o << <<>>, <<"--- Values only in first file ---">> >>
    \o ValueLines(c.only_in_file1)
    \o << <<>>, <<"--- Values only in second file ---">> >>
    \o ValueLines(c.only_in_file2)
    \o << <<>>, <<"--- Values in both files ---">> >>
    \o ValueLines(c.in_both)

NoTgt == [chosen |-> FALSE]
TargetError == ValueError(<<"target_file must be 'file1' or 'file2'">>)

\* The two branches' lists exchanged.
SelectTargetSwapped(a, c) ==
    IF a.target_file = "file1"
    THEN [chosen |-> TRUE, target_name |-> Basename(a.file1),
          only_in_target |-> c.only_in_file2, id_col |-> a.col1]
    ELSE IF a.target_file = "file2"
    THEN [chosen |-> TRUE, target_name |-> Basename(a.file2),
          only_in_target |-> c.only_in_file1, id_col |-> a.col2]
    ELSE [chosen |-> FALSE]

\* The target branch: the target's name, its only-in list and its column.
SelectTarget(a, c) ==
    IF a.target_file = "file1"
    THEN [chosen |-> TRUE, target_name |-> Basename(a.file1),
          only_in_target |-> c.only_in_file1, id_col |-> a.col1]
    ELSE IF a.target_file = "file2"
    THEN [chosen |-> TRUE, target_name |-> Basename(a.file2),
          only_in_target |-> c.only_in_file2, id_col |-> a.col2]
    ELSE NoTgt

\* A DataFrame is the sequence of its columns; df[name] = values replaces
\* the column of that name or appends a new one.
SetColumn(frame, name, values) ==
    IF \E i \in 1..Len(frame) : frame[i].name = name
    THEN [i \in 1..Len(frame) |->
            IF frame[i].name = name THEN [name |-> name, values |-> values] ELSE frame[i]]
    ELSE Append(frame, [name |-> name, values |-> values])

StatusTags(a, c, t) ==
    [i \in 1..Len(c.in_both) |-> "occur_both"]
    \o [i \in 1..Len(t.only_in_target) |-> "occur_in_" \o a.target_file]

\* pd.DataFrame({id_col: in_both + only_in_target}) with its status column.
Results(a, c, t) ==
    SetColumn(<<[name |-> t.id_col, values |-> c.in_both \o t.only_in_target]>>,
              "status", StatusTags(a, c, t))

\* to_csv(index=False): the header line, then one line per row.
CsvLines(frame) ==
    << [j \in 1..Len(frame) |-> frame[j].name] >>
    \o [i \in 1..Len(frame[1].values) |-> [j \in 1..Len(frame) |-> frame[j].values[i]]]

NoRet == [returned |-> FALSE]

Bundle(c) ==
    [ returned |-> TRUE,
      only_in_file1 |-> c.only_in_file1, only_in_file2 |-> c.only_in_file2,
      in_both |-> c.in_both,
      ignored_in_file1 |-> c.ignored1, ignored_in_file2 |-> c.ignored2 ]

---------------------------------------------------------------------------
(* Calls.                                                                  *)

Omitted == "<omitted>"

\* The parameters of compare_columns with the defaults of its signature.
Bind(file1, col1, file2, col2, target_file, log_path, output_path) ==
    [ file1 |-> file1, col1 |-> col1, file2 |-> file2, col2 |-> col2,
      target_file |-> IF target_file = Omitted THEN "file2" ELSE target_file,
      log_path |-> IF log_path = Omitted THEN DefaultLogPath ELSE log_path,
      output_path |-> IF output_path = Omitted THEN DefaultOutputPath ELSE output_path,
      target_given |-> target_file # Omitted ]

NoArgs == Bind(<<>>, "", <<>>, "", Omitted, Omitted, Omitted)
NoPrev == [set |-> FALSE]

OutFiles == LogPaths \cup OutputPaths

Start(a) ==
    /\ pc' = "load1"
    /\ args' = a
    /\ df1' = NoTable /\ df2' = NoTable
    /\ cmp' = NoCmp /\ tgt' = NoTgt
    /\ ret' = NoRet /\ err' = NoErr
    /\ reads' = <<>> /\ written' = {}
    /\ fs0' = fs
    /\ UNCHANGED <<store, fs>>

\* compare_columns(...) is called with any arguments.
Call ==
    /\ pc = "idle"
    /\ \E f1 \in FilePool, f2 \in FilePool, c1 \in ColPool, c2 \in ColPool,
          t \in TargetPool \cup {Omitted},
          l \in (LogPaths \ {DefaultLogPath}) \cup {Omitted},
          o \in (OutputPaths \ {DefaultOutputPath}) \cup {Omitted} :
          Start(Bind(f1, c1, f2, c2, t, l, o))
    /\ prev' = NoPrev

\* compare_columns(...) is called again with the arguments of the call
\* that just ended.
Rerun ==
    /\ pc \in {"returned", "failed"}
    /\ Start(args)
    /\ prev' = [set |-> TRUE, fs |-> fs, ret |-> ret, err |-> err]

\* compare_columns is called once on the two readable sources.
CallOnTables ==
    /\ pc = "idle"
    /\ \E t \in {"file1", "file2"} : Start(Bind(PathA, ColA, PathB, ColB, t, Omitted, Omitted))
    /\ prev' = NoPrev

Fail(e) ==
    /\ err' = e
    /\ pc' = "failed"

\* df1 = load_data(file1)
Load1 ==
    /\ pc = "load1"
    /\ LET r == LoadData(store, args.file1)
       IN  /\ reads' = IF r.read THEN Append(reads, args.file1) ELSE reads
           /\ IF r.err = NoErr
              THEN df1' = r.df /\ pc' = "load2" /\ UNCHANGED err
              ELSE Fail(r.err) /\ UNCHANGED df1
    /\ UNCHANGED <<store, fs, args, df2, cmp, tgt, ret, written, fs0, prev>>

\* df2 = load_data(file2)
Load2 ==
    /\ pc = "load2"
    /\ LET r == LoadData(store, args.file2)
       IN  /\ reads' = IF r.read THEN Append(reads, args.file2) ELSE reads
           /\ IF r.err = NoErr
              THEN df2' = r.df /\ pc' = "check" /\ UNCHANGED err
              ELSE Fail(r.err) /\ UNCHANGED df2
    /\ UNCHANGED <<store, fs, args, df1, cmp, tgt, ret, written, fs0, prev>>

\* The two column checks.
Check ==
    /\ pc = "check"
    /\ LET e == CheckColumns(args, df1, df2)
       IN  IF e = NoErr THEN pc' = "compute" /\ UNCHANGED err ELSE Fail(e)
    /\ UNCHANGED <<store, fs, args, df1, df2, cmp, tgt, ret, reads, written, fs0, prev>>

\* Conversion to strings, the masks, the sets, the three sorted lists.
Compute ==
    /\ pc = "compute"
    /\ cmp' = Compare(df1[args.col1], df2[args.col2])
    /\ pc' = "log"
    /\ UNCHANGED <<store, fs, args, df1, df2, tgt, ret, err, reads, written, fs0, prev>>

\* The log file is opened for writing and written in full.
WriteLog ==
    /\ pc = "log"
    /\ \E ts \in Timestamps : fs' = WriteFile(fs, args.log_path, LogLines(ts, args, cmp))
    /\ written' = written \cup {args.log_path}
    /\ pc' = "target"
    /\ UNCHANGED <<store, args, df1, df2, cmp, tgt, ret, err, reads, fs0, prev>>

\* The target branch, which raises on any other selector.
Target ==
    /\ pc = "target"
    /\ LET t == SelectTarget(args, cmp)
       IN  IF t.chosen
           THEN tgt' = t /\ pc' = "result" /\ UNCHANGED err
           ELSE Fail(TargetError) /\ UNCHANGED tgt
    /\ UNCHANGED <<store, fs, args, df1, df2, cmp, ret, reads, written, fs0, prev>>

\* The result table is built and saved, and the bundle returned.
WriteResult ==
    /\ pc = "result"
    /\ fs' = WriteFile(fs, args.output_path, CsvLines(Results(args, cmp, tgt)))
    /\ written' = written \cup {args.output_path}
    /\ ret' = Bundle(cmp)
    /\ pc' = "returned"
    /\ UNCHANGED <<store, args, df1, df2, cmp, tgt, err, reads, fs0, prev>>

Steps == Load1 \/ Load2 \/ Check \/ Compute \/ WriteLog \/ Target \/ WriteResult

InitCall ==
    /\ pc = "idle"
    /\ args = NoArgs
    /\ df1 = NoTable /\ df2 = NoTable
    /\ cmp = NoCmp /\ tgt = NoTgt
    /\ ret = NoRet /\ err = NoErr
    /\ reads = <<>> /\ written = {}
    /\ prev = NoPrev

\* A call with any arguments and its repetitions, over the scenario sources,
\* with output files that are all missing or all left over from earlier.
Init ==
    /\ store \in ScenarioStores
    /\ fs \in {[f \in OutFiles |-> Absent], [f \in OutFiles |-> Stale]}
    /\ fs0 = fs
    /\ InitCall

Next == Call \/ Rerun \/ Steps

Spec == Init /\ [][Next]_vars

\* One call on two readable sources whose columns are drawn from Cells.
InitData ==
    /\ store \in DataStores
    /\ fs = [f \in OutFiles |-> Absent]
    /\ fs0 = fs
    /\ InitCall

NextData == CallOnTables \/ Steps

SpecData == InitData /\ [][NextData]_vars

---------------------------------------------------------------------------
(* Vocabulary of the properties.                                           *)

Finished == pc \in {"returned", "failed"}

IsUnsupported(e) ==
    e.type = "ValueError" /\ Len(e.msg) = 2 /\ e.msg[1] = "Unsupported file type: "
IsColumnNotFound(e) ==
    e.type = "ValueError" /\ Len(e.msg) = 4 /\ e.msg[1] = "Column '"
IsFileNotFound(e) == e.type = "FileNotFoundError"

\* Exactly sixteen decimal digits and nothing before or after them.
Exact16(s) == Len(s) = 16 /\ \A i \in 1..Len(s) : s[i] \in 48..57

\* The extension of a path is one of .xlsx, .xls, .gpkg in any letter case.
Fold(c) == IF c \in 97..122 THEN c - 32 ELSE c
SameIgnoringCase(x, y) == Len(x) = Len(y) /\ \A i \in 1..Len(x) : Fold(x[i]) = Fold(y[i])
Recognized(p) == \E e \in {ExtXlsx, ExtXls, ExtGpkg} : SameIgnoringCase(SplitExt(p), e)

\* Both tables are in memory.
BothLoaded ==
    /\ pc \notin {"idle", "load1", "load2"}
    /\ ~(pc = "failed" /\ (IsUnsupported(err) \/ IsFileNotFound(err)))

\* The rows of the result file: its lines after the header.
ResultRows == Tail(fs[args.output_path].lines)
ResultHeader == fs[args.output_path].lines[1]
TargetOnlyRows == SelectSeq(ResultRows, LAMBDA r : r[2] # "occur_both")
Ids(rows) == [i \in 1..Len(rows) |-> rows[i][1]]

Ascending(s) == \A i \in 1..(Len(s) - 1) : LexLess(s[i], s[i + 1])

---------------------------------------------------------------------------
(* C1: the returned only_in_file1, only_in_file2 and in_both are pairwise  *)
(* disjoint and together hold exactly the members of the two valid sets.   *)
C1_Partition ==
    pc = "returned" =>
        LET A == Range(ret.only_in_file1)
            B == Range(ret.only_in_file2)
            C == Range(ret.in_both)
        IN  /\ A \cap B = {} /\ A \cap C = {} /\ B \cap C = {}
            /\ A \cup B \cup C = cmp.set1 \cup cmp.set2

C1_Witness ==
    /\ pc = "returned"
    /\ ret.only_in_file1 # <<>> /\ ret.only_in_file2 # <<>> /\ ret.in_both # <<>>

---------------------------------------------------------------------------
(* C2: a call that has ended has either written both the log and the       *)
(* result file and returned the bundle, or has written neither file.       *)
C2_NoPartialFailure ==
    Finished =>
        \/ written = {args.log_path, args.output_path} /\ ret.returned
        \/ written = {}

---------------------------------------------------------------------------
(* C3: with both tables loaded and col1 missing from the first or col2     *)
(* missing from the second, the call fails with the column error naming    *)
(* the first missing column and its file, and no output file has been      *)
(* written or changed.                                                     *)
C3_ColumnNotFound ==
    (/\ BothLoaded
     /\ pc # "check"
     /\ (args.col1 \notin DOMAIN df1 \/ args.col2 \notin DOMAIN df2))
    =>  /\ pc = "failed"
        /\ IsColumnNotFound(err)
        /\ IF args.col1 \notin DOMAIN df1
           THEN err.msg[2] = args.col1 /\ err.msg[4] = args.file1
           ELSE err.msg[2] = args.col2 /\ err.msg[4] = args.file2
        /\ written = {}
        /\ fs = fs0

C3_Witness ==
    /\ pc = "failed"
    /\ IsColumnNotFound(err)
    /\ args.col1 \in DOMAIN df1
    /\ err.msg[2] = args.col2
    /\ fs0[args.log_path].exists

---------------------------------------------------------------------------
(* C4: every ignored value fails the exact sixteen-digit pattern, every    *)
(* member of a valid set passes it, and no ignored value is in a valid set.*)
C4_PatternExact ==
    cmp.done =>
        LET ignored == Range(cmp.ignored1) \cup Range(cmp.ignored2)
            valid == cmp.set1 \cup cmp.set2
        IN  /\ \A v \in ignored : ~Exact16(v)
            /\ \A v \in valid : Exact16(v)
            /\ ignored \cap valid = {}

---------------------------------------------------------------------------
---------------------------------------------------------------------------
---------------------------------------------------------------------------
(* C7.  The target-only rows of the result file are the given list under   *)
(* the given tag, and the identifier column has the given header.          *)
TargetRowsAre(list, tag, header) ==
    /\ pc = "returned"
    /\ ResultHeader[1] = header
    /\ Ids(TargetOnlyRows) = list
    /\ \A i \in 1..Len(TargetOnlyRows) : TargetOnlyRows[i][2] = tag

\* The call got past loading and the column checks.
Comparable == Finished /\ BothLoaded /\ ~IsColumnNotFound(err)

---------------------------------------------------------------------------
(* C8: a call repeated with the same arguments on the same sources ends    *)
(* as the call before it did, leaves every output file as that call left   *)
(* it, except for the timestamp line of the log, and returns the same      *)
(* bundle.                                                                 *)
SameButTimestamp(x, y) ==
    /\ x.exists = y.exists
    /\ Len(x.lines) = Len(y.lines)
    /\ \A i \in 2..Len(x.lines) : x.lines[i] = y.lines[i]
    /\ x.lines # <<>> =>
          \/ x.lines[1] = y.lines[1]
          \/ /\ Len(x.lines[1]) = 2 /\ Len(y.lines[1]) = 2
             /\ x.lines[1][1] = "Comparison log - "
             /\ y.lines[1][1] = "Comparison log - "

C8_Idempotent ==
    (Finished /\ prev.set) =>
        /\ ret = prev.ret
        /\ err = prev.err
        /\ \A f \in OutFiles :
              IF f = args.log_path
              THEN SameButTimestamp(fs[f], prev.fs[f])
              ELSE fs[f] = prev.fs[f]

C8_Witness ==
    /\ pc = "returned"
    /\ prev.set
    /\ fs0[args.log_path].exists
    /\ fs[args.log_path] # prev.fs[args.log_path]
    /\ Len(ResultRows) >= 2

---------------------------------------------------------------------------
(* C9: a load fails as unsupported exactly when the path's extension is    *)
(* none of .xlsx, .xls, .gpkg in any letter case; the failure comes before *)
(* that file is read and before any output is written, and an unsupported  *)
(* first file fails the call before the second file is loaded.             *)
C9_UnsupportedFormat ==
    /\ (pc \notin {"idle", "load1"} /\ ~Recognized(args.file1)) =>
          /\ pc = "failed" /\ IsUnsupported(err)
          /\ reads = <<>> /\ written = {} /\ fs = fs0
    /\ (pc \notin {"idle", "load1", "load2"} /\ Recognized(args.file1)
           /\ ~Recognized(args.file2) /\ ~IsFileNotFound(err)) =>
          /\ pc = "failed" /\ IsUnsupported(err)
          /\ reads = <<args.file1>> /\ written = {} /\ fs = fs0
    /\ IsUnsupported(err) => ~Recognized(args.file1) \/ ~Recognized(args.file2)
    /\ \A i \in 1..Len(reads) : Recognized(reads[i])

C9_Witness ==
    /\ pc = "failed"
    /\ IsUnsupported(err)
    /\ ~Recognized(args.file1)
    /\ Recognized(args.file2)
    /\ store[args.file2].exists
    /\ fs0[args.log_path].exists

---------------------------------------------------------------------------
(* C10: each ignored list holds exactly the distinct converted values of   *)
(* the rows that are not exactly sixteen digits, each once, in the order   *)
(* of their first rows.                                                    *)
FirstRow(strs, v) == CHOOSE i \in 1..Len(strs) : strs[i] = v /\ \A j \in 1..(i - 1) : strs[j] # v

IgnoredAsStated(strs, ignored) ==
    /\ Range(ignored) = {strs[i] : i \in {j \in 1..Len(strs) : ~Exact16(strs[j])}}
    /\ \A i \in 1..Len(ignored), j \in 1..Len(ignored) :
          i < j => ignored[i] # ignored[j] /\ FirstRow(strs, ignored[i]) < FirstRow(strs, ignored[j])

C10_IgnoredOrder ==
    cmp.done =>
        /\ IgnoredAsStated(cmp.str1, cmp.ignored1)
        /\ IgnoredAsStated(cmp.str2, cmp.ignored2)

(* C10 with the code's own pattern in place of the exact one: the ignored   *)
(* lists are duplicate-free and in first-row order.                        *)
IgnoredByMatch(strs, ignored) ==
    /\ Range(ignored) = {strs[i] : i \in {j \in 1..Len(strs) : ~Match16(strs[j])}}
    /\ \A i \in 1..Len(ignored), j \in 1..Len(ignored) :
          i < j => ignored[i] # ignored[j] /\ FirstRow(strs, ignored[i]) < FirstRow(strs, ignored[j])

C10_IgnoredOrderByMatch ==
    cmp.done =>
        /\ IgnoredByMatch(cmp.str1, cmp.ignored1)
        /\ IgnoredByMatch(cmp.str2, cmp.ignored2)

====
